---- MODULE Spec2Model ----
(***************************************************************************)
(* Model of the ETL pipeline (src/transform/main.py) and of the two        *)
(* dashboard views (src/dashboard/app.py) of kapustota/gtu-diploma.        *)
(*                                                                         *)
(* Numbers.  The program computes in IEEE doubles; the model computes in   *)
(* exact non-negative rationals [n, d] in lowest terms.  d = 0 encodes the *)
(* two non-finite doubles that occur: [0, 0] is None / NaN (null) and      *)
(* [1, 0] is +inf (pandas x / 0 with x > 0).  Rounding to k decimals is    *)
(* modelled on the exact quotient.  ingested_at (a timestamp, constant     *)
(* within one normalizer call) is left out of the rows.                    *)
(***************************************************************************)
EXTENDS Integers, Sequences, FiniteSets, TLC

VARIABLES
    pc,             \* main(): the step the run is at
    wb_raw,         \* main(): the lists the ingest helpers returned
    faostat_raw,
    ilostat_raw,
    bis_raw,
    fx_raw,
    failed_sources, \* main(): the sources whose scraper reported a failed fetch
    wb_df,          \* main(): the normalized DataFrames (sequences of rows)
    faostat_df,
    ilostat_df,
    bis_df,
    fx_normalized,  \* main(): the exchange-rate records after normalize_fx_eurozone
    unified,        \* main(): the unified DataFrame
    sink,           \* the MongoDB collection economic_indicators
    sink_indexes,   \* the names of the indexes the collection has
    dash_df,        \* dashboard: the snapshot load_all_data cached
    loaded,         \* dashboard: what the last run of load_all_data returned
    query,          \* dashboard: the widget values of the last render
    result,         \* dashboard: what the last render computed
    cv_in,        \* corrected_value: the UDF's arguments
    cv_factors,   \* corrected_value: history of the divisions its loop made
    cv_out,       \* corrected_value: the value returned
    cv_pc,        \* corrected_value: "call" before, "done" after the call
    fetch_pc,     \* _fetch_all_data: "request" in the loop, "returned" after
    attempt,      \* _fetch_all_data: the loop variable
    outcomes,     \* _fetch_all_data: what each session.get so far ended in
    response,     \* _fetch_all_data: the observations of the decoded response
    fetched,      \* _fetch_all_data: the list returned
    json_error_is_request_exception
                  \* the installed requests raises its own JSONDecodeError

rawVars == <<wb_raw, faostat_raw, ilostat_raw, bis_raw, fx_raw, failed_sources>>
dfVars == <<wb_df, faostat_df, ilostat_df, bis_df, fx_normalized>>
sinkVars == <<sink, sink_indexes>>
mainVars == <<pc, rawVars, dfVars, unified, sinkVars>>
cvVars == <<cv_in, cv_factors, cv_out, cv_pc>>

dashVars == <<dash_df, loaded, query, result>>

fetchVars == <<fetch_pc, attempt, outcomes, response, fetched,
               json_error_is_request_exception>>

vars == <<mainVars, dashVars, cvVars, fetchVars>>

----------------------------------------------------------------------------
(* Bounds of the model *)

\* wage values fed to corrected_value are k and k * BigUnit, k \in 0..MaxValue
MaxValue == 3
BigUnit == 20000

\* one pipeline run ingests at most MaxRaw raw records, all sources together
MaxRaw == 3

\* raw values of the pipeline's records are 1..MaxRawValue
MaxRawValue == 2

\* at most MaxFailedFetches sources fail to fetch in one pipeline run
MaxFailedFetches == 1

\* the dashboard's snapshot holds at most MaxRows rows
MaxRows == 3

----------------------------------------------------------------------------
(* Exact arithmetic *)

RECURSIVE GCD(_, _)
GCD(a, b) == IF b = 0 THEN a ELSE GCD(b, a % b)

\* the rational n / d in lowest terms (n >= 0, d >= 0)
Q(n, d) ==
    IF d = 0 THEN [n |-> IF n = 0 THEN 0 ELSE 1, d |-> 0]
    ELSE LET g == GCD(n, d) IN [n |-> n \div g, d |-> d \div g]

NULL == [n |-> 0, d |-> 0]
INF == [n |-> 1, d |-> 0]
Whole(k) == [n |-> k, d |-> 1]

IsNull(x) == x = NULL
IsFinite(x) == x.d # 0

\* a * b and a / b, cancelling before multiplying
QMul(a, b) ==
    LET g1 == GCD(a.n, b.d)
        g2 == GCD(b.n, a.d)
    IN  Q((a.n \div g1) * (b.n \div g2), (a.d \div g2) * (b.d \div g1))

QDiv(a, b) == QMul(a, [n |-> b.d, d |-> b.n])

\* round half to even of n / d, as an integer (Python round, numpy rint)
RoundHalfEven(n, d) ==
    LET q == n \div d
        r == n % d
    IN  IF 2 * r < d THEN q
        ELSE IF 2 * r > d THEN q + 1
        ELSE IF q % 2 = 0 THEN q ELSE q + 1

\* round half up of n / d, as an integer (Spark F.round)
RoundHalfUp(n, d) == (2 * n + d) \div (2 * d)

\* floor of x / (ds[1] * ... * ds[k]) and whether the division is exact;
\* the product itself may exceed 32-bit integers (10^13)
RECURSIVE FloorDivSeq(_, _)
FloorDivSeq(x, ds) ==
    IF ds = <<>> THEN x ELSE FloorDivSeq(x \div Head(ds), Tail(ds))

RECURSIVE ExactDivSeq(_, _)
ExactDivSeq(x, ds) ==
    IF ds = <<>> THEN TRUE
    ELSE x % Head(ds) = 0 /\ ExactDivSeq(x \div Head(ds), Tail(ds))

\* round half to even of x / (ds[1] * ... * ds[k])
RoundHalfEvenSeq(x, ds) ==
    LET h == FloorDivSeq(2 * x, ds)
        q == h \div 2
    IN  IF h % 2 = 0 THEN q
        ELSE IF ExactDivSeq(2 * x, ds) THEN (IF q % 2 = 0 THEN q ELSE q + 1)
        ELSE q + 1

\* 10^4 and 10^2: the scales of round(x, 4) and round(x, 2)
Scale4 == 10000
Scale2 == 100

----------------------------------------------------------------------------
(* Static tables, restricted to the countries of the model *)

\* ISO3 -> <<switch_year, old units per new unit>>, ascending
REDENOMINATIONS ==
    [c \in {"ARG", "RUS", "VEN"} |->
        CASE c = "ARG" -> << <<1970, 100>>, <<1983, 10000>>,
                             <<1985, 1000>>, <<1992, 10000>> >>
          [] c = "RUS" -> << <<1998, 1000>> >>
          [] c = "VEN" -> << <<2008, 1000>>, <<2018, 100000>> >>]

----------------------------------------------------------------------------
(* Redenomination corrector *)

\* the loop dividing by every factor, whatever the year
applied_factors_all(denoms, year) == [i \in 1..Len(denoms) |-> denoms[i][2]]

\* the loop with year <= switch_year in place of year < switch_year
RECURSIVE applied_factors_le(_, _)
applied_factors_le(denoms, year) ==
    IF denoms = <<>> THEN <<>>
    ELSE LET switch_year == Head(denoms)[1]
             factor == Head(denoms)[2]
             rest == applied_factors_le(Tail(denoms), year)
         IN  IF year <= switch_year THEN <<factor>> \o rest ELSE rest

\* the loop of corrected_value: the factors value is divided by, in order
RECURSIVE applied_factors(_, _)
applied_factors(denoms, year) ==
    IF denoms = <<>> THEN <<>>
    ELSE LET switch_year == Head(denoms)[1]
             factor == Head(denoms)[2]
             rest == applied_factors(Tail(denoms), year)
         IN  IF year < switch_year THEN <<factor>> \o rest ELSE rest

\* round(value / f1 / ... / fk, 4)
round4_divided(value, factors) ==
    Q(RoundHalfEvenSeq(value.n * Scale4, <<value.d>> \o factors), Scale4)

\* the correction applied whatever the indicator
corrected_value_any_indicator(country_code, year, value, indicator_type) ==
    IF country_code \notin DOMAIN REDENOMINATIONS THEN value
    ELSE round4_divided(value,
                        applied_factors(REDENOMINATIONS[country_code], year))

corrected_value(country_code, year, value, indicator_type) ==
    IF indicator_type # "monthly_wage" THEN value
    ELSE IF country_code \notin DOMAIN REDENOMINATIONS THEN value
    ELSE round4_divided(value,
                        applied_factors(REDENOMINATIONS[country_code], year))

\* the factors of the entries of a country whose switch_year exceeds year
LaterFactors(country_code, year) ==
    LET later == SelectSeq(REDENOMINATIONS[country_code],
                           LAMBDA e : e[1] > year)
    IN  [i \in 1..Len(later) |-> later[i][2]]

----------------------------------------------------------------------------
(* Sequences as lists and DataFrames *)

MapSeq(s, F(_)) == [i \in 1..Len(s) |-> F(s[i])]

RECURSIVE Flatten(_)
Flatten(ss) == IF ss = <<>> THEN <<>> ELSE Head(ss) \o Flatten(Tail(ss))

\* the elements of s, each once, in order of first appearance
RECURSIVE Distinct(_)
Distinct(s) ==
    IF s = <<>> THEN <<>>
    ELSE LET init == Distinct(SubSeq(s, 1, Len(s) - 1))
             last == s[Len(s)]
         IN  IF \E i \in 1..Len(init) : init[i] = last THEN init
             ELSE Append(init, last)

\* sorted(s, key=K): stable, ascending
SortByKey(s, K(_)) ==
    LET pos(i) == Cardinality({j \in 1..Len(s) : K(s[j]) < K(s[i])})
                  + Cardinality({j \in 1..i : K(s[j]) = K(s[i])})
    IN  [p \in 1..Len(s) |-> s[CHOOSE i \in 1..Len(s) : pos(i) = p]]

SeqsUpTo(S, n) == UNION {[1..k -> S] : k \in 0..n}

QAdd(a, b) == Q(a.n * b.d + b.n * a.d, a.d * b.d)

RECURSIVE SumValues(_)
SumValues(rows) ==
    IF rows = <<>> THEN Whole(0)
    ELSE QAdd(Head(rows).value, SumValues(Tail(rows)))

----------------------------------------------------------------------------
(* Country registry and currency tables, restricted to the model's codes *)

M49_TO_ISO3 == [m \in {"32", "840", "862"} |->
                  CASE m = "32" -> "ARG" [] m = "840" -> "USA" [] m = "862" -> "VEN"]

ISO3_TO_NAME == [c \in {"ARG", "DEU", "RUS", "USA", "VEN"} |->
                  CASE c = "ARG" -> "Argentina"
                    [] c = "DEU" -> "Germany"
                    [] c = "RUS" -> "Russia"
                    [] c = "USA" -> "United States"
                    [] c = "VEN" -> "Venezuela"]

\* ISO3 -> <<adoption year, old currency units per euro>>
EUROZONE_RATES == [c \in {"DEU"} |-> <<1999, Q(195583, 100000)>>]

\* the codes of the model in ascending string order, for sorted(...)
CodeOrder == <<"", "001", "840", "ARG", "DEU", "RUS", "USA", "VEN", "WLD">>
CodeRank(c) == CHOOSE i \in 1..Len(CodeOrder) : CodeOrder[i] = c

\* str.strip("'\"") on a country code
strip_quotes(s) ==
    CASE s = "'840" -> "840"
      [] s = "'001" -> "001"
      [] OTHER -> s

----------------------------------------------------------------------------
(* Scrapers: what they return for the records they parsed *)

\* a date field that int() rejects with ValueError
Unparseable == -1

\* the year of a record can be parsed
WellFormed(r) == r.year # Unparseable

ByYear(r) == r.year
ByCodeYear(r) == CodeRank(r.country_code) * 10000 + r.year

\* grouped[country_code] = records of the country, each group sorted by year,
\* the groups in order of first appearance; the ingest helper concatenates them
grouped_by_country(records) ==
    LET codes == Distinct(MapSeq(records, LAMBDA r : r.country_code))
        group(c) == SortByKey(SelectSeq(records, LAMBDA r : r.country_code = c),
                              ByYear)
    IN  Flatten([i \in 1..Len(codes) |-> group(codes[i])])

ingest_worldbank(parsed) == grouped_by_country(SortByKey(parsed, ByYear))
\* get_food_cpi_data skips a row whose Year raises in int()
ingest_faostat(parsed) ==
    grouped_by_country(SortByKey(SelectSeq(parsed, WellFormed), ByCodeYear))
ingest_ilostat(parsed) == grouped_by_country(parsed)
\* get_price_data: one record per row of the table, its year the 4-digit part
\* of the period ("2016-Q1" gives 2016), sorted by (country_code, year)
get_price_data(rows) ==
    SortByKey(MapSeq(rows,
                     LAMBDA row : [country_code |-> row.country_code,
                                   country_name |-> row.country_name,
                                   year |-> row.period[1],
                                   price_per_m2 |-> row.value]),
              ByCodeYear)
ingest_bis(rows) == grouped_by_country(get_price_data(rows))
ingest_exchange_rates(parsed) == grouped_by_country(SortByKey(parsed, ByCodeYear))

----------------------------------------------------------------------------
(* Normalizers *)

Row(cc, name, year, value, ind, src) ==
    [country_code |-> cc, country_name |-> name, year |-> year,
     value |-> value, value_rebased |-> NULL, value_usd |-> NULL,
     indicator_type |-> ind, source |-> src]

\* r.get(field) of a numeric field: None when the record has no such key
GetValue(r, field) == IF field \in DOMAIN r THEN r[field] ELSE NULL

normalize_worldbank(raw) ==
    MapSeq(SelectSeq(raw, LAMBDA r : GetValue(r, "cpi_total") # NULL
                                     /\ r.country_code # ""),
           LAMBDA r : Row(r.country_code, r.country_name, r.year,
                          r.cpi_total, "cpi", "worldbank"))

GroupKey(r) == <<r.country_code, r.country_name, r.year, r.indicator_type,
                 r.source>>

\* the first observation of each group instead of the average
group_first(df) ==
    LET keys == Distinct(MapSeq(df, GroupKey))
        rows(k) == SelectSeq(df, LAMBDA r : GroupKey(r) = k)
    IN  [i \in 1..Len(keys) |->
            [rows(keys[i])[1] EXCEPT !.value_rebased = NULL,
                                     !.value_usd = NULL]]

\* df.groupBy(country_code, country_name, year, indicator_type, source,
\* ingested_at).agg(avg(value)), the other two columns null
group_avg(df) ==
    LET keys == Distinct(MapSeq(df, GroupKey))
        rows(k) == SelectSeq(df, LAMBDA r : GroupKey(r) = k)
        avg(k) == QDiv(SumValues(rows(k)), Whole(Len(rows(k))))
    IN  [i \in 1..Len(keys) |->
            [rows(keys[i])[1] EXCEPT !.value = avg(keys[i]),
                                     !.value_rebased = NULL,
                                     !.value_usd = NULL]]

normalize_faostat(raw) ==
    LET m49(r) == strip_quotes(r.country_code)
        kept == SelectSeq(raw, LAMBDA r : GetValue(r, "cpi_food") # NULL
                                          /\ m49(r) \in DOMAIN M49_TO_ISO3)
    IN  group_avg(MapSeq(kept,
            LAMBDA r : Row(M49_TO_ISO3[m49(r)], r.country_name, r.year,
                           r.cpi_food, "food_cpi", "faostat")))

normalize_ilostat(raw) ==
    group_avg(MapSeq(SelectSeq(raw, LAMBDA r : GetValue(r, "gross_wage") # NULL
                                               /\ r.country_code # ""),
                     LAMBDA r : Row(r.country_code, r.country_name, r.year,
                                    r.gross_wage, "monthly_wage", "ilostat")))

normalize_bis(raw) ==
    MapSeq(SelectSeq(raw, LAMBDA r : GetValue(r, "housing_price_index") # NULL
                                     /\ r.country_code # ""),
           LAMBDA r : Row(r.country_code, r.country_name, r.year,
                          r.housing_price_index, "housing_price_index", "bis"))

\* the adoption year itself taken as a year before the euro
normalize_fx_eurozone_le(fx_records) ==
    MapSeq(fx_records,
           LAMBDA r :
             IF /\ r.country_code \in DOMAIN EUROZONE_RATES
                /\ r.year <= EUROZONE_RATES[r.country_code][1]
             THEN [r EXCEPT !.exchange_rate =
                              QDiv(r.exchange_rate,
                                   EUROZONE_RATES[r.country_code][2])]
             ELSE r)

normalize_fx_eurozone(fx_records) ==
    MapSeq(fx_records,
           LAMBDA r :
             IF /\ r.country_code \in DOMAIN EUROZONE_RATES
                /\ r.year < EUROZONE_RATES[r.country_code][1]
             THEN [r EXCEPT !.exchange_rate =
                              QDiv(r.exchange_rate,
                                   EUROZONE_RATES[r.country_code][2])]
             ELSE r)

----------------------------------------------------------------------------
(* Transformation steps of main() *)

\* the UDF fill_name of step 3
fill_name(country_code, country_name) ==
    IF country_name # "" THEN country_name
    ELSE IF country_code \in DOMAIN ISO3_TO_NAME THEN ISO3_TO_NAME[country_code]
    ELSE ""

\* step 3: unionByName of the four DataFrames, filter(length(country_code) == 3),
\* fill_name
union_all(wb, fao, ilo, bis) ==
    MapSeq(SelectSeq(wb \o fao \o ilo \o bis,
                     LAMBDA r : Len(r.country_code) = 3),
           LAMBDA r : [r EXCEPT !.country_name =
                                  fill_name(r.country_code, r.country_name)])

\* step 4
\* step 4 left out: the values stay in the old currency units
normalize_redenomination_values_skipped(df) == df

normalize_redenomination_values(df) ==
    MapSeq(df, LAMBDA r : [r EXCEPT !.value =
                 corrected_value(r.country_code, r.year, r.value,
                                 r.indicator_type)])

\* a lookup by country alone: the last rate of the country, whatever its year
fx_get_any_year(fx, country_code, year) ==
    LET idx == {i \in 1..Len(fx) : fx[i].country_code = country_code}
    IN  IF idx = {} THEN NULL
        ELSE fx[CHOOSE i \in idx : \A j \in idx : j <= i].exchange_rate

\* fx_dict.get((country_code, year)): the dict comprehension keeps the last
\* record of a key
fx_get(fx, country_code, year) ==
    LET idx == {i \in 1..Len(fx) : /\ fx[i].country_code = country_code
                                   /\ fx[i].year = year}
    IN  IF idx = {} THEN NULL
        ELSE fx[CHOOSE i \in idx : \A j \in idx : j <= i].exchange_rate

\* round(x, 4) of Python
round4(x) ==
    LET y == QMul(x, Whole(Scale4)) IN Q(RoundHalfEven(y.n, y.d), Scale4)

\* the UDF usd_value of compute_value_usd
usd_value(fx, country_code, year, value) ==
    LET rate == fx_get(fx, country_code, year)
    IN  IF rate # NULL /\ rate.n # 0 THEN round4(QDiv(value, rate)) ELSE NULL

\* step 5
compute_value_usd(df, fx) ==
    MapSeq(df, LAMBDA r : [r EXCEPT !.value_usd =
                 usd_value(fx, r.country_code, r.year, r.value)])

\* step 6: the countries with fewer than MinWagePoints monthly_wage rows
MinWagePoints == 3

\* the threshold taken inclusively: three points count as sparse too
sparse_codes_le(df) ==
    LET wages == SelectSeq(df, LAMBDA r : r.indicator_type = "monthly_wage")
        count(c) == Len(SelectSeq(wages, LAMBDA r : r.country_code = c))
    IN  {c \in {wages[i].country_code : i \in 1..Len(wages)} :
            count(c) <= MinWagePoints}

sparse_codes(df) ==
    LET wages == SelectSeq(df, LAMBDA r : r.indicator_type = "monthly_wage")
        count(c) == Len(SelectSeq(wages, LAMBDA r : r.country_code = c))
    IN  {c \in {wages[i].country_code : i \in 1..Len(wages)} :
            count(c) < MinWagePoints}

drop_sparse(df) ==
    SelectSeq(df, LAMBDA r : ~(/\ r.indicator_type = "monthly_wage"
                               /\ r.country_code \in sparse_codes(df)))

\* step 7: F.round(value / _base * 100, 2) of Spark
BaseYear == 2016

round2_spark(x) ==
    LET y == QMul(x, Whole(Scale2)) IN Q(RoundHalfUp(y.n, y.d), Scale2)

\* left join with the rows of BaseYear on (country_code, indicator_type): one
\* output row per matching base row, one with a null _base when none matches
rebase_to_2015(df) ==
    LET base_2015 == SelectSeq(df, LAMBDA r : r.year = BaseYear)
        matches(r) == SelectSeq(base_2015,
                        LAMBDA b : /\ b.country_code = r.country_code
                                   /\ b.indicator_type = r.indicator_type)
        rebased(r, base) ==
            IF base # NULL /\ base.n # 0
            THEN round2_spark(QMul(QDiv(r.value, base), Whole(100)))
            ELSE NULL
        joined(r) ==
            IF matches(r) = <<>> THEN << [r EXCEPT !.value_rebased = NULL] >>
            ELSE MapSeq(matches(r),
                        LAMBDA b : [r EXCEPT !.value_rebased =
                                               rebased(r, b.value)])
    IN  Flatten(MapSeq(df, joined))

\* the unique index idx_country_year_indicator_unique can be built
Key(r) == <<r.country_code, r.year, r.indicator_type>>

\* an index built without unique=True accepts any rows
AnyKeys(rows) == TRUE

UniqueKeys(rows) ==
    \A i, j \in 1..Len(rows) : Key(rows[i]) = Key(rows[j]) => i = j

AllIndexes == {"idx_country_year_indicator_unique", "idx_indicator_year",
               "idx_country"}

----------------------------------------------------------------------------
(* The records the scrapers can parse, in the model *)

\* raw values are 1..MaxRawValue
WbRecords ==
    {[country_code |-> c, country_name |-> IF c = "USA" THEN "United States"
                                           ELSE "World",
      year |-> y, cpi_total |-> Whole(v)] :
        c \in {"USA", "WLD"}, y \in {2015, 2016}, v \in 1..MaxRawValue} \cup
    {[country_code |-> "USA", country_name |-> "United States",
      year |-> Unparseable, cpi_total |-> Whole(1)]}

FaoRecords ==
    {[country_code |-> c, country_name |-> IF c = "840" THEN "United States"
                                           ELSE "World",
      year |-> 2016, cpi_food |-> Whole(v)] :
        c \in {"840", "001"}, v \in 1..MaxRawValue} \cup
    {[country_code |-> "840", country_name |-> "United States",
      year |-> Unparseable, cpi_food |-> Whole(1)]}

\* ILOSTAT names its areas; the empty name stands for an area without one
IloRecords ==
    {[country_code |-> c, country_name |-> IF c = "ARG" THEN "Argentina" ELSE "",
      year |-> y, gross_wage |-> Whole(v)] :
        c \in {"ARG", "VEN"}, y \in {1990, 2015, 2016}, v \in 1..MaxRawValue}

\* the rows of the BIS table: one per country and quarter, <<year, quarter>>
\* standing for the period "2016-Q1"
BisRows ==
    {[country_code |-> "USA", country_name |-> "United States",
      period |-> <<2016, q>>, value |-> Whole(q)] : q \in {1, 2}}

FxRecords ==
    {[country_code |-> c, country_name |-> IF c = "USA" THEN "United States"
                                           ELSE "Argentina",
      year |-> y, exchange_rate |-> Whole(x)] :
        c \in {"ARG", "USA"}, y \in {1990, 2016}, x \in {0, 2}} \cup
    {[country_code |-> "DEU", country_name |-> "Germany",
      year |-> y, exchange_rate |-> Whole(2)] : y \in {1998, 1999}}

----------------------------------------------------------------------------
(* main(): one run of the pipeline *)

MainIdle ==
    /\ pc = "idle"
    /\ wb_raw = <<>> /\ faostat_raw = <<>> /\ ilostat_raw = <<>>
    /\ bis_raw = <<>> /\ fx_raw = <<>>
    /\ failed_sources = {}
    /\ wb_df = <<>> /\ faostat_df = <<>> /\ ilostat_df = <<>> /\ bis_df = <<>>
    /\ fx_normalized = <<>>
    /\ unified = <<>>
    /\ sink = <<>>
    /\ sink_indexes = {}

CvIdle ==
    /\ cv_in = [country_code |-> "", year |-> 0, value |-> NULL,
                indicator_type |-> ""]
    /\ cv_factors = <<>>
    /\ cv_out = NULL
    /\ cv_pc = "idle"

FetchIdle ==
    /\ fetch_pc = "idle"
    /\ attempt = 0
    /\ outcomes = <<>>
    /\ response = <<>>
    /\ fetched = <<>>
    /\ json_error_is_request_exception = FALSE

DashIdle ==
    /\ dash_df = {}
    /\ loaded = {}
    /\ query = [mode |-> "none", country |-> "", indicator |-> "", codes |-> {},
                slider |-> <<0, 0>>, use_usd |-> FALSE]
    /\ result = [shown |-> FALSE, raised |-> FALSE, has_usd |-> FALSE,
                 base_year |-> 0, rows |-> {}, missing |-> {}]

\* the collection as the previous run of main() left it
PreviousDataset ==
    <<Row("USA", "United States", 2014, Whole(1), "cpi", "worldbank")>>

Init ==
    /\ pc = "ingest_worldbank"
    /\ wb_raw = <<>> /\ faostat_raw = <<>> /\ ilostat_raw = <<>>
    /\ bis_raw = <<>> /\ fx_raw = <<>>
    /\ failed_sources = {}
    /\ wb_df = <<>> /\ faostat_df = <<>> /\ ilostat_df = <<>> /\ bis_df = <<>>
    /\ fx_normalized = <<>>
    /\ unified = <<>>
    /\ sink = PreviousDataset
    /\ sink_indexes = AllIndexes
    /\ CvIdle
    /\ DashIdle
    /\ FetchIdle

\* a failed fetch taken as fatal
fetch_failure_raises(next_step) == "fetch_error"

\* the scrapers catch the error of a failed fetch, report it and return no
\* records: main() goes on with its next step
after_failed_fetch(next_step) == next_step

RawCount == Len(wb_raw) + Len(faostat_raw) + Len(ilostat_raw) + Len(bis_raw)
            + Len(fx_raw)

\* what a scraper parsed: any list of its records within the run's bound
Parsed(records) == SeqsUpTo(records, MaxRaw - RawCount)

\* _parse_cpi_records applies int() to every date; get_all_countries_cpi does
\* not catch its ValueError, which ends main()
IngestWorldbank ==
    /\ pc = "ingest_worldbank"
    /\ \/ /\ \E parsed \in Parsed(WbRecords) :
                IF \A i \in 1..Len(parsed) : WellFormed(parsed[i])
                THEN wb_raw' = ingest_worldbank(parsed) /\ pc' = "ingest_faostat"
                ELSE wb_raw' = <<>> /\ pc' = "value_error"
          /\ UNCHANGED failed_sources
       \/ /\ Cardinality(failed_sources) < MaxFailedFetches
          /\ wb_raw' = <<>>
          /\ failed_sources' = failed_sources \cup {"worldbank"}
          /\ pc' = after_failed_fetch("ingest_faostat")
    /\ UNCHANGED <<faostat_raw, ilostat_raw, bis_raw, fx_raw, dfVars, unified,
                   sinkVars, dashVars, cvVars, fetchVars>>

IngestFaostat ==
    /\ pc = "ingest_faostat"
    /\ \/ /\ \E parsed \in Parsed(FaoRecords) : faostat_raw' = ingest_faostat(parsed)
          /\ pc' = "ingest_ilostat"
          /\ UNCHANGED failed_sources
       \/ /\ Cardinality(failed_sources) < MaxFailedFetches
          /\ faostat_raw' = <<>>
          /\ failed_sources' = failed_sources \cup {"faostat"}
          /\ pc' = after_failed_fetch("ingest_ilostat")
    /\ UNCHANGED <<wb_raw, ilostat_raw, bis_raw, fx_raw, dfVars, unified,
                   sinkVars, dashVars, cvVars, fetchVars>>

IngestIlostat ==
    /\ pc = "ingest_ilostat"
    /\ \/ /\ \E parsed \in Parsed(IloRecords) : ilostat_raw' = ingest_ilostat(parsed)
          /\ pc' = "ingest_bis"
          /\ UNCHANGED failed_sources
       \/ /\ Cardinality(failed_sources) < MaxFailedFetches
          /\ ilostat_raw' = <<>>
          /\ failed_sources' = failed_sources \cup {"ilostat"}
          /\ pc' = after_failed_fetch("ingest_bis")
    /\ UNCHANGED <<wb_raw, faostat_raw, bis_raw, fx_raw, dfVars, unified,
                   sinkVars, dashVars, cvVars, fetchVars>>

IngestBis ==
    /\ pc = "ingest_bis"
    /\ \/ /\ \E parsed \in Parsed(BisRows) : bis_raw' = ingest_bis(parsed)
          /\ pc' = "ingest_exchange_rates"
          /\ UNCHANGED failed_sources
       \/ /\ Cardinality(failed_sources) < MaxFailedFetches
          /\ bis_raw' = <<>>
          /\ failed_sources' = failed_sources \cup {"bis"}
          /\ pc' = after_failed_fetch("ingest_exchange_rates")
    /\ UNCHANGED <<wb_raw, faostat_raw, ilostat_raw, fx_raw, dfVars, unified,
                   sinkVars, dashVars, cvVars, fetchVars>>

IngestExchangeRates ==
    /\ pc = "ingest_exchange_rates"
    /\ \/ /\ \E parsed \in Parsed(FxRecords) : fx_raw' = ingest_exchange_rates(parsed)
          /\ pc' = "normalize"
          /\ UNCHANGED failed_sources
       \/ /\ Cardinality(failed_sources) < MaxFailedFetches
          /\ fx_raw' = <<>>
          /\ failed_sources' = failed_sources \cup {"exchange_rates"}
          /\ pc' = after_failed_fetch("normalize")
    /\ UNCHANGED <<wb_raw, faostat_raw, ilostat_raw, bis_raw, dfVars, unified,
                   sinkVars, dashVars, cvVars, fetchVars>>

\* step 2
Normalize ==
    /\ pc = "normalize"
    /\ wb_df' = normalize_worldbank(wb_raw)
    /\ faostat_df' = normalize_faostat(faostat_raw)
    /\ ilostat_df' = normalize_ilostat(ilostat_raw)
    /\ bis_df' = normalize_bis(bis_raw)
    /\ fx_normalized' = normalize_fx_eurozone(fx_raw)
    /\ pc' = "union"
    /\ UNCHANGED <<rawVars, unified, sinkVars, dashVars, cvVars, fetchVars>>

\* step 3
UnionAll ==
    /\ pc = "union"
    /\ unified' = union_all(wb_df, faostat_df, ilostat_df, bis_df)
    /\ pc' = "redenomination"
    /\ UNCHANGED <<rawVars, dfVars, sinkVars, dashVars, cvVars, fetchVars>>

\* step 4
Redenominate ==
    /\ pc = "redenomination"
    /\ unified' = normalize_redenomination_values(unified)
    /\ pc' = "usd"
    /\ UNCHANGED <<rawVars, dfVars, sinkVars, dashVars, cvVars, fetchVars>>

\* step 5
ComputeUsd ==
    /\ pc = "usd"
    /\ unified' = compute_value_usd(unified, fx_normalized)
    /\ pc' = "sparse"
    /\ UNCHANGED <<rawVars, dfVars, sinkVars, dashVars, cvVars, fetchVars>>

\* step 6
DropSparse ==
    /\ pc = "sparse"
    /\ unified' = drop_sparse(unified)
    /\ pc' = "rebase"
    /\ UNCHANGED <<rawVars, dfVars, sinkVars, dashVars, cvVars, fetchVars>>

\* step 7
Rebase ==
    /\ pc = "rebase"
    /\ unified' = rebase_to_2015(unified)
    /\ pc' = "write"
    /\ UNCHANGED <<rawVars, dfVars, sinkVars, dashVars, cvVars, fetchVars>>

\* step 8, write_to_mongo: mode("overwrite").save() drops the collection with
\* its indexes and writes the rows
WriteMongo ==
    /\ pc = "write"
    /\ sink' = unified
    /\ sink_indexes' = {}
    /\ pc' = "create_indexes"
    /\ UNCHANGED <<rawVars, dfVars, unified, dashVars, cvVars, fetchVars>>

\* step 8, write_to_mongo: create_index(unique=True) raises on a duplicate key
\* and main() ends with that exception; otherwise the three indexes are built
CreateIndexes ==
    /\ pc = "create_indexes"
    /\ IF UniqueKeys(sink)
       THEN sink_indexes' = AllIndexes /\ pc' = "done"
       ELSE sink_indexes' = {} /\ pc' = "failed"
    /\ UNCHANGED <<rawVars, dfVars, unified, sink, dashVars, cvVars, fetchVars>>

Next ==
    \/ IngestWorldbank
    \/ IngestFaostat
    \/ IngestIlostat
    \/ IngestBis
    \/ IngestExchangeRates
    \/ Normalize
    \/ UnionAll
    \/ Redenominate
    \/ ComputeUsd
    \/ DropSparse
    \/ Rebase
    \/ WriteMongo
    \/ CreateIndexes

Spec == Init /\ [][Next]_vars

----------------------------------------------------------------------------
(* Claims about one run of main() *)

Written == pc \in {"create_indexes", "done", "failed"}

\* C1: after the full pipeline no two records written to the sink share
\* (country_code, year, indicator_type).
C1_SinkKeysUnique == Written => UniqueKeys(sink)

\* C8: every record of the pipeline output has a country_code of the country
\* registry; a 3-letter code that is not in the registry does not appear.
C8_SinkCodesInRegistry ==
    Written => \A i \in 1..Len(sink) :
                   sink[i].country_code \in DOMAIN ISO3_TO_NAME

\* the unified DataFrame as step 3 left it, before any correction
Step3Rows == union_all(wb_df, faostat_df, ilostat_df, bis_df)

\* the value of a row of step 3 in the current currency unit
ExpectedCorrected(r) ==
    IF /\ r.indicator_type = "monthly_wage"
       /\ r.country_code \in DOMAIN REDENOMINATIONS
    THEN Q(RoundHalfEvenSeq(r.value.n * Scale4,
                            <<r.value.d>> \o LaterFactors(r.country_code, r.year)),
           Scale4)
    ELSE r.value

\* C3: the redenomination correction has been applied to every record when
\* the USD conversion reads value (pc = "usd"); value_usd is computed from the
\* corrected value; and the value and value_usd written to the sink are the
\* corrected value and its conversion.
C3_UsdFromCorrectedValue ==
    /\ pc \in {"usd", "sparse"} =>
          /\ Len(unified) = Len(Step3Rows)
          /\ \A i \in 1..Len(unified) :
                /\ Key(unified[i]) = Key(Step3Rows[i])
                /\ unified[i].value = ExpectedCorrected(Step3Rows[i])
                /\ pc = "usd" => unified[i].value_usd = NULL
                /\ pc = "sparse" =>
                      unified[i].value_usd =
                          usd_value(fx_normalized, unified[i].country_code,
                                    unified[i].year,
                                    ExpectedCorrected(Step3Rows[i]))
    /\ Written =>
          \A i \in 1..Len(sink) : \E j \in 1..Len(Step3Rows) :
              /\ Key(sink[i]) = Key(Step3Rows[j])
              /\ sink[i].value = ExpectedCorrected(Step3Rows[j])
              /\ sink[i].value_usd =
                    usd_value(fx_normalized, sink[i].country_code, sink[i].year,
                              ExpectedCorrected(Step3Rows[j]))

\* C3 witness: the wage 2 of ARG 1990 was corrected to 0.0002 and then
\* converted at the rate 2 to 0.0001
C3_Witness ==
    /\ pc = "sparse"
    /\ \E i \in 1..Len(unified) :
          /\ Key(unified[i]) = <<"ARG", 1990, "monthly_wage">>
          /\ Step3Rows[i].value = Whole(2)
          /\ unified[i].value = Q(2, Scale4)
          /\ unified[i].value_usd = Q(1, Scale4)

\* the records of the exchange-rate table for the key of a row
FxEntries(r) ==
    {i \in 1..Len(fx_normalized) :
        /\ fx_normalized[i].country_code = r.country_code
        /\ fx_normalized[i].year = r.year}

\* the entry the dict holds for the key: the last record of the key
FxEntry(r) ==
    fx_normalized[CHOOSE i \in FxEntries(r) : \A j \in FxEntries(r) : j <= i]

Converted == pc = "sparse" \/ Written

ConvertedRows == IF pc = "sparse" THEN unified ELSE sink

\* C9 as claimed: value_usd is round(value / rate, 4) whenever the table has
\* an entry for exactly (country_code, year) and null when it has none.
C9_UsdWheneverEntry ==
    Converted =>
        \A i \in 1..Len(ConvertedRows) :
            LET r == ConvertedRows[i] IN
            IF FxEntries(r) # {}
            THEN /\ r.value_usd # NULL
                 /\ FxEntry(r).exchange_rate.n # 0
                 /\ r.value_usd = round4(QDiv(r.value, FxEntry(r).exchange_rate))
            ELSE r.value_usd = NULL

\* C9 as amended: value_usd is round(value / rate, 4) whenever the table has
\* an entry with a non-zero rate for exactly (country_code, year), and null
\* when it has no entry for that exact pair or the rate is 0; the rate of
\* another year of the country is never used.
C9_UsdExactKeyNonZero ==
    Converted =>
        \A i \in 1..Len(ConvertedRows) :
            LET r == ConvertedRows[i] IN
            IF FxEntries(r) # {} /\ FxEntry(r).exchange_rate.n # 0
            THEN r.value_usd = round4(QDiv(r.value, FxEntry(r).exchange_rate))
            ELSE r.value_usd = NULL

\* C9 witness: a row converted at the rate of its own year while the table
\* also holds a rate of another year of the country, and a row of a year the
\* table has no rate for
C9_Witness ==
    /\ pc = "sparse"
    /\ \E i, j \in 1..Len(unified) :
          /\ unified[i].country_code = unified[j].country_code
          /\ FxEntries(unified[i]) # {}
          /\ unified[i].value_usd = QDiv(unified[i].value, Whole(2))
          /\ FxEntries(unified[j]) = {}
          /\ unified[j].value_usd = NULL

\* the values a series has at the reference year
RefValues(rows, r) ==
    {rows[i].value : i \in {k \in 1..Len(rows) :
                              /\ rows[k].country_code = r.country_code
                              /\ rows[k].indicator_type = r.indicator_type
                              /\ rows[k].year = BaseYear}}

Rebased == pc = "write" \/ Written

\* C10: for every (country_code, indicator_type) series, if the series has a
\* non-zero value at the reference year then every row of the series has
\* value_rebased = round(value / referenceValue * 100, 2); otherwise
\* value_rebased is null on every row of the series.
C10_RebasedToReferenceValue ==
    Rebased =>
        \A i \in 1..Len(unified) :
            LET r == unified[i]
                refs == {v \in RefValues(unified, r) : v.n # 0}
            IN  IF refs # {}
                THEN \A v \in refs :
                        r.value_rebased =
                            round2_spark(QMul(QDiv(r.value, v), Whole(100)))
                ELSE r.value_rebased = NULL

\* C10 on the runs whose rows have unique keys
C10_WhenKeysUnique == UniqueKeys(unified) => C10_RebasedToReferenceValue

\* C11: for every series with a non-zero value at the reference year, the
\* rows of the reference year itself have value_rebased = 100.00
C11_ReferenceYearIs100 ==
    Rebased =>
        \A i \in 1..Len(unified) :
            LET r == unified[i]
            IN  (r.year = BaseYear /\ \E v \in RefValues(unified, r) : v.n # 0)
                    => r.value_rebased = Whole(100)

\* C11 on the runs whose rows have unique keys
C11_WhenKeysUnique == UniqueKeys(unified) => C11_ReferenceYearIs100

\* the number of monthly_wage rows of a country
WageCount(rows, c) ==
    Cardinality({i \in 1..Len(rows) : /\ rows[i].indicator_type = "monthly_wage"
                                      /\ rows[i].country_code = c})

\* C12: step 6 removes the monthly_wage rows of the countries with fewer than
\* 3 monthly_wage rows and keeps every other row, unchanged and in order
C12_PrunesExactlySparseWages ==
    [][pc = "sparse" =>
          unified' = SelectSeq(unified,
                        LAMBDA r : \/ r.indicator_type # "monthly_wage"
                                   \/ WageCount(unified, r.country_code) >= 3)]_vars

\* after step 6: a country's two wage rows are gone, a row of another
\* indicator is still there
C12_Witness ==
    /\ pc = "rebase"
    /\ Len(ilostat_df) = 2
    /\ ilostat_df[1].country_code = ilostat_df[2].country_code
    /\ Len(unified) >= 1
    /\ \A i \in 1..Len(unified) : unified[i].indicator_type # "monthly_wage"

\* two rows of the transformed data share (country_code, year, indicator_type)
DuplicateSurvives ==
    \E i, j \in 1..Len(unified) :
        /\ i # j
        /\ unified[i].country_code = unified[j].country_code
        /\ unified[i].year = unified[j].year
        /\ unified[i].indicator_type = unified[j].indicator_type

\* C14: a run whose transformed rows hold two rows of one key does not
\* complete: it ends in the failure of create_index(unique=True), and only
\* such runs end that way
C14_DuplicateAborts ==
    /\ pc = "done" => ~DuplicateSurvives
    /\ pc = "failed" => DuplicateSurvives

\* a run that ended with the duplicate key error
C14_Witness == pc = "failed" /\ DuplicateSurvives

\* C15: a record whose year cannot be parsed is dropped and the run goes on:
\* no run ends with the ValueError of int()
C15_MalformedRecordDropped == pc # "value_error"

\* the list main() got from a source
RawOf(source) ==
    CASE source = "worldbank" -> wb_raw
      [] source = "faostat" -> faostat_raw
      [] source = "ilostat" -> ilostat_raw
      [] source = "bis" -> bis_raw
      [] source = "exchange_rates" -> fx_raw

\* C16: a source whose fetch failed contributes no record, the run does not
\* end with the fetch error, and a finished run has written what the
\* transformation made of the other sources' records
C16_SourceFailureNotFatal ==
    /\ pc # "fetch_error"
    /\ \A source \in failed_sources : RawOf(source) = <<>>
    /\ (failed_sources # {} /\ pc \in {"done", "failed"}) => sink = unified

\* a run that completed and wrote rows although a fetch had failed
C16_Witness ==
    /\ pc = "done"
    /\ failed_sources # {}
    /\ Len(sink) >= 1

\* steps 2 to 7 of main() as a function of the five raw lists
transform(wb, fao, ilo, bis, fx) ==
    rebase_to_2015(
        drop_sparse(
            compute_value_usd(
                normalize_redenomination_values(
                    union_all(normalize_worldbank(wb), normalize_faostat(fao),
                              normalize_ilostat(ilo), normalize_bis(bis))),
                normalize_fx_eurozone(fx))))

\* the lists with the elements of s in another order
Perms(s) ==
    {[i \in 1..Len(s) |-> s[f[i]]] :
        f \in {g \in [1..Len(s) -> 1..Len(s)] :
                 \A i, j \in 1..Len(s) : g[i] = g[j] => i = j}}

RowSet(df) == {df[i] : i \in 1..Len(df)}

\* the steps of a run compute transform of the raw lists
TransformIsTheRun ==
    pc = "write" =>
        unified = transform(wb_raw, faostat_raw, ilostat_raw, bis_raw, fx_raw)

\* C17: the raw lists in any other order give the same set of canonical rows
C17_PermutationInvariant ==
    pc = "write" =>
        \A wb \in Perms(wb_raw), fao \in Perms(faostat_raw),
           ilo \in Perms(ilostat_raw), bis \in Perms(bis_raw),
           fx \in Perms(fx_raw) :
            RowSet(transform(wb, fao, ilo, bis, fx)) = RowSet(unified)

\* C17 on the runs whose exchange-rate records have one record per
\* (country_code, year)
C17_WhenRatesUnique ==
    (\A i, j \in 1..Len(fx_raw) :
        (fx_raw[i].country_code = fx_raw[j].country_code
         /\ fx_raw[i].year = fx_raw[j].year) => i = j)
        => C17_PermutationInvariant

\* step 2 has run
Normalized ==
    pc \in {"union", "redenomination", "usd", "sparse", "rebase", "write",
            "create_indexes", "done", "failed"}

\* C19: the pre-correction keeps every exchange-rate record, in place; the
\* rate of a DEU record of a year before 1999 is the raw rate divided by
\* 1.95583, every other record is as it came
C19_EurozoneRatesBeforeAdoption ==
    Normalized =>
        /\ Len(fx_normalized) = Len(fx_raw)
        /\ \A i \in 1..Len(fx_raw) :
              IF fx_raw[i].country_code = "DEU" /\ fx_raw[i].year < 1999
              THEN fx_normalized[i] =
                       [fx_raw[i] EXCEPT !.exchange_rate =
                            Q(fx_raw[i].exchange_rate.n * 100000,
                              fx_raw[i].exchange_rate.d * 195583)]
              ELSE fx_normalized[i] = fx_raw[i]

\* the DEU rate of 1998 was divided, the one of 1999 was not
C19_Witness ==
    /\ Normalized
    /\ \E i, j \in 1..Len(fx_raw) :
          /\ fx_raw[i].country_code = "DEU" /\ fx_raw[i].year = 1998
          /\ fx_normalized[i].exchange_rate = Q(200000, 195583)
          /\ fx_raw[j].country_code = "DEU" /\ fx_raw[j].year = 1999
          /\ fx_normalized[j].exchange_rate = Whole(2)


RECURSIVE SumOf(_)
SumOf(qs) == IF qs = <<>> THEN Whole(0) ELSE QAdd(Head(qs), SumOf(Tail(qs)))

Mean(qs) == QDiv(SumOf(qs), Whole(Len(qs)))

\* the raw FAOSTAT values of one country (ISO3) and year, as ingested
FaoObserved(c, y) ==
    MapSeq(SelectSeq(faostat_raw,
                     LAMBDA r : /\ strip_quotes(r.country_code)
                                     \in DOMAIN M49_TO_ISO3
                                /\ M49_TO_ISO3[strip_quotes(r.country_code)] = c
                                /\ r.year = y),
           LAMBDA r : r.cpi_food)

\* the raw ILOSTAT values of one country and year, as ingested
IloObserved(c, y) ==
    MapSeq(SelectSeq(ilostat_raw,
                     LAMBDA r : r.country_code = c /\ r.year = y),
           LAMBDA r : r.gross_wage)

OneMean(df, c, y, obs) ==
    LET out == SelectSeq(df, LAMBDA r : r.country_code = c /\ r.year = y)
    IN  IF obs = <<>> THEN out = <<>>
        ELSE Len(out) = 1 /\ out[1].value = Mean(obs)

\* C21: after normalization the FAOSTAT frame and the ILOSTAT frame hold, for
\* every (country, year) that has raw observations, exactly one row, and its
\* value is the arithmetic mean of all raw observations of that key; a key
\* without observations has no row
C21_OneMeanPerKey ==
    Normalized =>
        /\ \A c \in {"ARG", "USA", "VEN"}, y \in {2016} :
              OneMean(faostat_df, c, y, FaoObserved(c, y))
        /\ \A c \in {"ARG", "VEN"}, y \in {1990, 2015, 2016} :
              OneMean(ilostat_df, c, y, IloObserved(c, y))
        /\ \A i \in 1..Len(faostat_df) :
              FaoObserved(faostat_df[i].country_code, faostat_df[i].year) # <<>>
        /\ \A i \in 1..Len(ilostat_df) :
              IloObserved(ilostat_df[i].country_code, ilostat_df[i].year) # <<>>

\* two different wages of one country and year became one row with their mean
C21_Witness ==
    /\ Normalized
    /\ IloObserved("ARG", 2016) = <<Whole(1), Whole(2)>>
    /\ \E i \in 1..Len(ilostat_df) :
          /\ ilostat_df[i].country_code = "ARG"
          /\ ilostat_df[i].year = 2016
          /\ ilostat_df[i].value = Q(3, 2)


Ingested == pc \notin {"idle", "ingest_worldbank", "ingest_faostat",
                       "ingest_ilostat", "ingest_bis"}

\* C26: the records the BIS scraper returned are annual, at most one for a
\* country and year
C26_BisAtMostOnePerCountryYear ==
    Ingested =>
        \A i, j \in 1..Len(bis_raw) :
            (/\ bis_raw[i].country_code = bis_raw[j].country_code
             /\ bis_raw[i].year = bis_raw[j].year) => i = j

\* C27: every record the BIS scraper returned with a 3-letter country code has
\* a housing_price_index observation of its country and year in the dataset
\* the run wrote
C27_NoBisRecordLost ==
    Written =>
        \A i \in 1..Len(bis_raw) :
            bis_raw[i].country_code \in {"USA"} =>
                \E j \in 1..Len(sink) :
                    /\ sink[j].indicator_type = "housing_price_index"
                    /\ sink[j].country_code = bis_raw[i].country_code
                    /\ sink[j].year = bis_raw[i].year


Aborted == pc \in {"failed", "value_error"}

\* C28: whenever the run has aborted, at a stage that raised or at the unique
\* index, the collection still holds the dataset of the previous run
C28_AbortKeepsPreviousDataset == Aborted => sink = PreviousDataset

\* a run that raised before step 8 left the collection as it was
C28_AbortBeforeWriteKeepsDataset ==
    pc = "value_error" => sink = PreviousDataset /\ sink_indexes = AllIndexes


\* one output row per input row, in order, equal to it in every column other
\* than value_rebased
SameRowsButRebased(before, after) ==
    /\ Len(after) = Len(before)
    /\ \A i \in 1..Len(before) :
          [after[i] EXCEPT !.value_rebased = NULL]
              = [before[i] EXCEPT !.value_rebased = NULL]

\* C29: step 7 returns exactly one row per input row; no row is added, dropped
\* or duplicated, and no column other than value_rebased changes
C29_RebaseOneRowPerRow ==
    [][pc = "rebase" => SameRowsButRebased(unified, unified')]_vars

\* C29 on the runs whose rows have unique keys
C29_WhenKeysUnique ==
    [][(pc = "rebase" /\ UniqueKeys(unified))
          => SameRowsButRebased(unified, unified')]_vars

----------------------------------------------------------------------------
(* Dashboard: the cached snapshot and the two views *)

Range(f) == {f[i] : i \in DOMAIN f}

Min(S) == CHOOSE x \in S : \A y \in S : x <= y
Max(S) == CHOOSE x \in S : \A y \in S : y <= x

\* the documents load_all_data can find: value is never null, value_usd is
\* null or the value converted at the rate 2
DashRecords ==
    {[country_code |-> c, indicator_type |-> t, year |-> y, value |-> Whole(v),
      value_usd |-> u] :
        c \in {"ARG", "USA"}, t \in {"cpi", "food_cpi"}, y \in {2015, 2016},
        v \in 0..MaxRawValue, u \in {NULL}} \cup
    {[country_code |-> c, indicator_type |-> t, year |-> y, value |-> Whole(v),
      value_usd |-> Q(v, 2)] :
        c \in {"ARG", "USA"}, t \in {"cpi", "food_cpi"}, y \in {2015, 2016},
        v \in 0..MaxRawValue}

\* compute_value_usd looks the rate up by (country_code, year): the rows of one
\* country and year all have a value_usd or all have none
UsdByCountryYear(rows) ==
    \A r1, r2 \in rows :
        (r1.country_code = r2.country_code /\ r1.year = r2.year)
            => ((r1.value_usd = NULL) <=> (r2.value_usd = NULL))

Snapshots ==
    {s \in {Range(f) : f \in [1..MaxRows -> DashRecords]} : UsdByCountryYear(s)}

NoQuery == [mode |-> "none", country |-> "", indicator |-> "", codes |-> {},
            slider |-> <<0, 0>>, use_usd |-> FALSE]

NoResult == [shown |-> FALSE, raised |-> FALSE, has_usd |-> FALSE,
             base_year |-> 0, rows |-> {}, missing |-> {}]

\* (val / _base * 100).round(2) of pandas: a missing or NaN operand and 0 / 0
\* give NaN, x / 0 gives inf
index_value(val, base) ==
    IF val = NULL \/ base = NULL THEN NULL
    ELSE IF base.n = 0 THEN (IF val.n = 0 THEN NULL ELSE INF)
    ELSE LET y == QMul(QMul(QDiv(val, base), Whole(100)), Whole(Scale2))
         IN  Q(RoundHalfEven(y.n, y.d), Scale2)

\* the value column of a row: value_usd under the USD toggle
Val(r, usd) == IF usd THEN r.value_usd ELSE r.value

Visible(rows, slider) == {r \in rows : slider[1] <= r.year /\ r.year <= slider[2]}

HasUsd(rows) == \E r \in rows : r.value_usd # NULL

\* dash_df.merge(base_values, on=by, how="left") and the index column: one row per
\* matching base row, one with a NaN _base when none matches
Indexed(rows, base_rows, By(_), usd) ==
    UNION {LET m == {b \in base_rows : By(b) = By(r)}
           IN  IF m = {}
               THEN {[series |-> By(r), year |-> r.year, value |-> Val(r, usd),
                      index_value |-> NULL]}
               ELSE {[series |-> By(r), year |-> r.year, value |-> Val(r, usd),
                      index_value |-> index_value(Val(r, usd), Val(b, usd))] :
                        b \in m}
           : r \in rows}

ByIndicator(r) == r.indicator_type
ByCountry(r) == r.country_code

\* the USD toggle without its filter
without_filter(rows) == rows

\* df[df["value_usd"].notna()]
with_value_usd(rows) == {r \in rows : r.value_usd # NULL}

\* the earliest first year instead of the latest
earliest_first_year(rows) ==
    Min({Min({r.year : r \in {x \in rows : x.indicator_type = t}}) :
            t \in {r.indicator_type : r \in rows}})

\* the latest year of all visible rows
latest_year(rows) == Max({r.year : r \in rows})

\* groupby("indicator_type")["year"].min().max(): the latest first year among
\* the visible indicators
latest_first_year(rows) ==
    Max({Min({r.year : r \in {x \in rows : x.indicator_type = t}}) :
            t \in {r.indicator_type : r \in rows}})

\* render_country_view for one choice of country, year range and USD checkbox
country_view(data, selected_country, year_slider, checkbox) ==
    LET country_df == Visible({r \in data : r.country_code = selected_country},
                              year_slider)
        has_usd == HasUsd(country_df)
        usd == checkbox /\ has_usd
        shown_df == IF usd THEN with_value_usd(country_df) ELSE country_df
    IN  IF shown_df = {}
        THEN [NoResult EXCEPT !.raised = TRUE]
        ELSE [shown |-> TRUE, raised |-> FALSE, has_usd |-> has_usd,
              base_year |-> latest_first_year(shown_df),
              rows |-> Indexed(shown_df,
                               {r \in shown_df :
                                    r.year = latest_first_year(shown_df)},
                               ByIndicator, usd),
              missing |-> {}]

\* render_cross_country for one choice of indicator, countries, year range and
\* USD checkbox
cross_country(data, selected_indicator, selected_codes, year_slider, checkbox) ==
    LET all_df == {r \in data : /\ r.country_code \in selected_codes
                                /\ r.indicator_type = selected_indicator}
        missing == selected_codes \ {r.country_code : r \in all_df}
        compare_df == Visible(all_df, year_slider)
        nunique == Cardinality({r.country_code : r \in compare_df})
        years_with_all ==
            {y \in {r.year : r \in compare_df} :
                Cardinality({r.country_code : r \in {x \in compare_df : x.year = y}})
                    = nunique}
        has_usd == HasUsd(compare_df)
        usd == checkbox /\ has_usd
        shown_df == IF usd THEN with_value_usd(compare_df) ELSE compare_df
    IN  IF all_df = {}
        THEN [NoResult EXCEPT !.missing = missing]
        ELSE IF years_with_all = {}
        THEN [NoResult EXCEPT !.raised = TRUE, !.missing = missing]
        ELSE [shown |-> TRUE, raised |-> FALSE, has_usd |-> has_usd,
              base_year |-> Min(years_with_all),
              rows |-> Indexed(shown_df,
                               {r \in shown_df : r.year = Min(years_with_all)},
                               ByCountry, usd),
              missing |-> missing]

\* st.multiselect(max_selections=8)
MaxSelections == 8

DashInit ==
    /\ MainIdle
    /\ CvIdle
    /\ FetchIdle
    /\ dash_df \in Snapshots
    /\ loaded = dash_df
    /\ query = NoQuery
    /\ result = NoResult

\* the year sliders offer the range min_year..max_year of the rows at hand
Sliders(rows) ==
    {<<lo, hi>> \in (Min({r.year : r \in rows})..Max({r.year : r \in rows}))
                    \X (Min({r.year : r \in rows})..Max({r.year : r \in rows})) :
        lo <= hi}

\* the USD filter applied to the cached frame itself
filtered_in_place(snapshot, q) ==
    IF q.use_usd THEN with_value_usd(snapshot) ELSE snapshot

\* the renders filter the frame into a new one and add their columns to a
\* .copy() of it: the cached frame keeps its rows
snapshot_after_render(snapshot, q) == snapshot

\* the snapshots a refresh is followed through
Refreshed == {s \in Snapshots : Cardinality(s) <= 1}

\* the ttl of the cache has passed: the next run of the script loads again
RefreshCache ==
    /\ query = NoQuery
    /\ \E fresh \in Refreshed : dash_df' = fresh /\ loaded' = fresh
    /\ UNCHANGED <<query, result, mainVars, cvVars, fetchVars>>

\* an interaction reruns the script from the top: the previous output is gone
Rerun ==
    /\ query # NoQuery
    /\ query' = NoQuery
    /\ result' = NoResult
    /\ UNCHANGED <<dash_df, loaded, mainVars, cvVars, fetchVars>>

RenderCountryView ==
    /\ query = NoQuery
    /\ dash_df # {}
    /\ \E c \in {r.country_code : r \in dash_df} :
       \E s \in Sliders({r \in dash_df : r.country_code = c}) :
       \E box \in BOOLEAN :
          \* a disabled checkbox stays unchecked
          /\ box => HasUsd(Visible({r \in dash_df : r.country_code = c}, s))
          /\ query' = [mode |-> "country", country |-> c, indicator |-> "",
                       codes |-> {}, slider |-> s, use_usd |-> box]
          /\ result' = country_view(dash_df, c, s, box)
    /\ dash_df' = snapshot_after_render(dash_df, query')
    /\ UNCHANGED <<loaded, mainVars, cvVars, fetchVars>>

RenderCrossCountry ==
    /\ query = NoQuery
    /\ dash_df # {}
    /\ \E t \in {r.indicator_type : r \in dash_df} :
       \E codes \in SUBSET {r.country_code : r \in dash_df} :
          /\ Cardinality(codes) >= 1
          /\ Cardinality(codes) <= MaxSelections
          /\ LET all_df == {r \in dash_df : r.country_code \in codes
                                            /\ r.indicator_type = t}
             IN  IF all_df = {}
                 THEN /\ query' = [mode |-> "compare", country |-> "",
                                   indicator |-> t, codes |-> codes,
                                   slider |-> <<0, 0>>, use_usd |-> FALSE]
                      /\ result' = cross_country(dash_df, t, codes, <<0, 0>>, FALSE)
                 ELSE \E s \in Sliders(all_df) : \E box \in BOOLEAN :
                      /\ box => HasUsd(Visible(all_df, s))
                      /\ query' = [mode |-> "compare", country |-> "",
                                   indicator |-> t, codes |-> codes,
                                   slider |-> s, use_usd |-> box]
                      /\ result' = cross_country(dash_df, t, codes, s, box)
    /\ dash_df' = snapshot_after_render(dash_df, query')
    /\ UNCHANGED <<loaded, mainVars, cvVars, fetchVars>>

DashNext == RefreshCache \/ Rerun \/ RenderCountryView \/ RenderCrossCountry

SpecDash == DashInit /\ [][DashNext]_vars

----------------------------------------------------------------------------
(* Claims about the dashboard *)

CountryShown == query.mode = "country" /\ result.shown
CompareShown == query.mode = "compare" /\ result.shown

SeriesOf(rows) == {r.series : r \in rows}
YearsOf(rows, s) == {r.year : r \in {x \in rows : x.series = s}}

CompareRows ==
    Visible({r \in dash_df : /\ r.country_code \in query.codes
                             /\ r.indicator_type = query.indicator},
            query.slider)

CountriesAt(rows, y) == {r.country_code : r \in {x \in rows : x.year = y}}

\* C5: in the comparison view common_base_year is the smallest visible year at
\* which as many countries have an observation as were selected
C5_CommonBaseYearAllSelected ==
    CompareShown =>
        LET all == {y \in {r.year : r \in CompareRows} :
                       Cardinality(CountriesAt(CompareRows, y))
                           = Cardinality(query.codes)}
        IN  all # {} /\ result.base_year = Min(all)

\* C6: no render raises, whatever data is missing
C6_QueryNeverRaises == query.mode # "none" => ~result.raised

\* C7: with the USD toggle on in the comparison view, common_base_year is the
\* earliest year at which every remaining country has a value_usd, and every
\* remaining country has a base value there
C7_UsdBaseYearFromUsdRows ==
    (CompareShown /\ query.use_usd) =>
        LET usd_rows == {r \in CompareRows : r.value_usd # NULL}
            remaining == {r.country_code : r \in usd_rows}
            all == {y \in {r.year : r \in usd_rows} :
                       CountriesAt(usd_rows, y) = remaining}
        IN  /\ all # {}
            /\ result.base_year = Min(all)
            /\ \A c \in remaining : result.base_year \in YearsOf(result.rows, c)

\* the snapshot has one row per (country_code, year, indicator_type)
SnapshotKeysUnique ==
    \A r1, r2 \in dash_df :
        (/\ r1.country_code = r2.country_code /\ r1.year = r2.year
         /\ r1.indicator_type = r2.indicator_type) => r1 = r2

\* C11 for the dynamic index of both views on a snapshot with unique keys: a
\* row of the base year with a non-zero value has index 100.00
C11_DynamicWhenKeysUnique ==
    (SnapshotKeysUnique /\ (CountryShown \/ CompareShown)) =>
        \A r \in result.rows :
            (r.year = result.base_year /\ r.value # NULL /\ r.value.n # 0)
                => r.index_value = Whole(100)

\* the rows a render works on: within the year range, and with a value_usd
\* when the USD box is checked
QueriedRows(rows) ==
    {r \in Visible(rows, query.slider) : query.use_usd => r.value_usd # NULL}

\* C13: every selected country of the comparison view, and every indicator of
\* the selected country in the single-country view, that has no row among the
\* queried rows is reported as missing
C13_MissingDataReported ==
    /\ query.mode = "compare" =>
          \A c \in query.codes :
              (\A r \in QueriedRows(dash_df) :
                   ~(r.country_code = c /\ r.indicator_type = query.indicator))
                  => c \in result.missing
    /\ query.mode = "country" =>
          \A t \in {r.indicator_type :
                      r \in {x \in dash_df : x.country_code = query.country}} :
              (\A r \in QueriedRows(dash_df) :
                   ~(r.country_code = query.country /\ r.indicator_type = t))
                  => t \in result.missing

\* C13 for the comparison view before the year range and the USD box narrow
\* the rows: a selected country without any row of the indicator is reported
C13_CompareMissingReported ==
    query.mode = "compare" =>
        result.missing =
            {c \in query.codes :
                \A r \in dash_df :
                    ~(r.country_code = c /\ r.indicator_type = query.indicator)}

\* the series of a snapshot row in the view that was rendered
SeriesIn(r) == IF query.mode = "country" THEN r.indicator_type ELSE r.country_code

\* the snapshot rows the render selected: the country of the single-country
\* view, the indicator and the countries of the comparison view, in the year
\* range
SelectedRows ==
    Visible({r \in dash_df :
                IF query.mode = "country" THEN r.country_code = query.country
                ELSE /\ r.country_code \in query.codes
                     /\ r.indicator_type = query.indicator},
            query.slider)

CountryRows == {r \in QueriedRows(dash_df) : r.country_code = query.country}

FirstYear(rows, t) == Min({r.year : r \in {x \in rows : x.indicator_type = t}})

\* C23: in the single-country view base_year is the maximum, over the
\* indicators present in the visible range, of the first year the indicator
\* has in that range (cpi from 2015 and food_cpi from 2016 give 2016)
C23_BaseYearMaxOfFirstYears ==
    CountryShown =>
        result.base_year =
            Max({FirstYear(CountryRows, t) :
                    t \in {r.indicator_type : r \in CountryRows}})

\* cpi visible from 2015 on, food_cpi only in 2016: base_year is 2016
C23_Witness ==
    /\ CountryShown
    /\ {r.indicator_type : r \in CountryRows} = {"cpi", "food_cpi"}
    /\ FirstYear(CountryRows, "cpi") = 2015
    /\ FirstYear(CountryRows, "food_cpi") = 2016
    /\ \E r \in CountryRows : r.indicator_type = "cpi" /\ r.year = 2016
    /\ result.base_year = 2016


\* C25: whatever queries have run, in whatever order, the cached snapshot is
\* what load_all_data returned when it last ran
C25_SnapshotAsLoaded == dash_df = loaded

\* a view with the USD box checked was rendered from a snapshot that has a
\* row without value_usd, and the snapshot still holds that row
C25_Witness ==
    /\ result.shown
    /\ query.use_usd
    /\ \E r \in dash_df : r.value_usd = NULL
    /\ dash_df = loaded

----------------------------------------------------------------------------
(* Specification of corrected_value as a function of its arguments *)

CvCountries == {"ARG", "RUS", "VEN", "USA"}
CvYears == {1965, 1969, 1970, 1975, 1984, 1985, 1991, 1992, 1997, 1998, 2016, 2018}
CvValues ==
    {Whole(k) : k \in 0..MaxValue} \cup {Whole(k * BigUnit) : k \in 1..MaxValue}
        \cup {Q(1, 3)}
CvIndicators == {"monthly_wage", "cpi"}

CvInit ==
    /\ MainIdle
    /\ DashIdle
    /\ FetchIdle
    /\ cv_in \in [country_code : CvCountries, year : CvYears,
                  value : CvValues, indicator_type : CvIndicators]
    /\ cv_factors = <<>>
    /\ cv_out = NULL
    /\ cv_pc = "call"

CvApply ==
    /\ cv_pc = "call"
    /\ cv_out' = corrected_value(cv_in.country_code, cv_in.year,
                                 cv_in.value, cv_in.indicator_type)
    /\ cv_factors' =
          IF /\ cv_in.indicator_type = "monthly_wage"
             /\ cv_in.country_code \in DOMAIN REDENOMINATIONS
          THEN applied_factors(REDENOMINATIONS[cv_in.country_code], cv_in.year)
          ELSE <<>>
    /\ cv_pc' = "done"
    /\ UNCHANGED <<cv_in, mainVars, dashVars, fetchVars>>

CvNext == CvApply

SpecCorrect == CvInit /\ [][CvNext]_vars

CvWageInTable ==
    /\ cv_pc = "done"
    /\ cv_in.indicator_type = "monthly_wage"
    /\ cv_in.country_code \in DOMAIN REDENOMINATIONS

\* C2: for a wage observation of a country in the redenomination table the
\* value is divided by the factors of exactly the entries whose switch_year
\* is strictly greater than the observation year (all four for ARG 1965),
\* and by no entry whose switch_year is equal to or before that year; the
\* quotient is rounded to 4 decimals.
C2_DividesByLaterSwitches ==
    CvWageInTable =>
        /\ cv_factors = LaterFactors(cv_in.country_code, cv_in.year)
        /\ cv_out = Q(RoundHalfEvenSeq(cv_in.value.n * Scale4,
                                       <<cv_in.value.d>> \o
                                       LaterFactors(cv_in.country_code,
                                                    cv_in.year)), Scale4)
        /\ (cv_in.country_code = "ARG" /\ cv_in.year = 1965)
               => cv_factors = <<100, 10000, 1000, 10000>>
        /\ (cv_in.country_code = "ARG" /\ cv_in.year = 1985)
               => cv_factors = <<10000>>
        /\ (cv_in.country_code = "ARG" /\ cv_in.year >= 1992
                                       /\ cv_in.value.d = 1)
               => cv_out = cv_in.value

\* C2 witness: an ARG wage of 1965 has been divided by all four factors
C2_Witness ==
    /\ CvWageInTable
    /\ cv_in.country_code = "ARG"
    /\ cv_in.year = 1965
    /\ cv_in.value = Whole(MaxValue * BigUnit)
    /\ cv_factors = <<100, 10000, 1000, 10000>>
    /\ cv_out = Whole(0)

\* C18: for an observation that is not a wage the value comes back unchanged,
\* not divided and not rounded, whatever the country and the year
C18_NoOpForOtherIndicators ==
    (cv_pc = "done" /\ cv_in.indicator_type # "monthly_wage")
        => cv_out = cv_in.value

\* a cpi value of ARG for 1965, before all four switches, came back as it was
C18_Witness ==
    /\ cv_pc = "done"
    /\ cv_in.indicator_type = "cpi"
    /\ cv_in.country_code = "ARG"
    /\ cv_in.year = 1965
    /\ cv_in.value = Q(1, 3)
    /\ cv_out = Q(1, 3)


\* the switch_year of the last entry of the country
LatestSwitchYear(country_code) ==
    REDENOMINATIONS[country_code][Len(REDENOMINATIONS[country_code])][1]

\* C24: for a wage of a country in the redenomination table and a year that
\* is not before its latest switch_year, correcting the corrected value again
\* returns it unchanged
C24_CorrectIsIdempotent ==
    (CvWageInTable /\ cv_in.year >= LatestSwitchYear(cv_in.country_code))
        => corrected_value(cv_in.country_code, cv_in.year, cv_out,
                           cv_in.indicator_type) = cv_out

\* a RUS wage of 1/3 for 1998, the switch year itself: rounded to 0.3333 by
\* the first call and left at 0.3333 by the second
C24_Witness ==
    /\ CvWageInTable
    /\ cv_in.country_code = "RUS"
    /\ cv_in.year = 1998
    /\ cv_in.value = Q(1, 3)
    /\ cv_out = Q(3333, 10000)
    /\ corrected_value("RUS", 1998, cv_out, "monthly_wage") = Q(3333, 10000)

----------------------------------------------------------------------------
(* ILOSTATWageScraper._fetch_all_data and _parse_sdmx_response *)

MaxSeries == 2
max_retries == 3

\* one observation of one series of the SDMX response: the area, the currency
\* and sex codes of the series key, the period and the value
IloSeries ==
    {[country_code |-> c,
      country_name |-> IF c = "ARG" THEN "Argentina" ELSE "Venezuela",
      cur |-> "CUR_TYPE_USD", sex |-> x, year |-> 2016, value |-> Whole(v)] :
        c \in {"ARG", "VEN"}, x \in {"SEX_T", "SEX_M", "SEX_F"},
        v \in 1..MaxRawValue} \cup
    {[country_code |-> "ARG", country_name |-> "Argentina",
      cur |-> "CUR_TYPE_LCU", sex |-> "SEX_T", year |-> 2016,
      value |-> Whole(MaxRawValue)]}

\* the series whose CUR index is that of CUR_TYPE_USD; all of them when the
\* CUR dimension of the response has no such value
usd_series(data) ==
    IF \E i \in 1..Len(data) : data[i].cur = "CUR_TYPE_USD"
    THEN SelectSeq(data, LAMBDA s : s.cur = "CUR_TYPE_USD")
    ELSE data

\* the series whose SEX index is that of SEX_T; all of them when the SEX
\* dimension of the response has no such value
total_series(data) ==
    IF \E i \in 1..Len(data) : data[i].sex = "SEX_T"
    THEN SelectSeq(data, LAMBDA s : s.sex = "SEX_T")
    ELSE data

parse_sdmx_response(data) ==
    MapSeq(total_series(usd_series(data)),
           LAMBDA s : [country_code |-> s.country_code,
                       country_name |-> s.country_name,
                       year |-> s.year, gross_wage |-> s.value])

FetchInit ==
    /\ MainIdle
    /\ CvIdle
    /\ DashIdle
    /\ fetch_pc = "request"
    /\ attempt = 0
    /\ outcomes = <<>>
    /\ response = <<>>
    /\ fetched = <<>>
    /\ json_error_is_request_exception \in BOOLEAN

\* one pass of the loop body that ends in continue or in return []
retry_or_give_up(outcome) ==
    /\ outcomes' = Append(outcomes, outcome)
    /\ IF attempt < max_retries - 1
       THEN attempt' = attempt + 1 /\ fetch_pc' = "request"
       ELSE attempt' = attempt /\ fetch_pc' = "returned"
    /\ UNCHANGED <<response, fetched>>

\* status 429
RateLimited ==
    /\ fetch_pc = "request"
    /\ retry_or_give_up("429")
    /\ UNCHANGED <<json_error_is_request_exception, mainVars, dashVars, cvVars>>

\* session.get or raise_for_status raises a RequestException
RequestError ==
    /\ fetch_pc = "request"
    /\ retry_or_give_up("request_error")
    /\ UNCHANGED <<json_error_is_request_exception, mainVars, dashVars, cvVars>>

\* response.json() raises: requests.exceptions.JSONDecodeError, which is a
\* RequestException and is taken by the first except clause, or
\* json.JSONDecodeError, taken by the second
ParseError ==
    /\ fetch_pc = "request"
    /\ IF json_error_is_request_exception
       THEN retry_or_give_up("parse_error")
       ELSE /\ outcomes' = Append(outcomes, "parse_error")
            /\ fetch_pc' = "returned"
            /\ UNCHANGED <<attempt, response, fetched>>
    /\ UNCHANGED <<json_error_is_request_exception, mainVars, dashVars, cvVars>>

\* the response decodes; the parsed records are returned
Success ==
    /\ fetch_pc = "request"
    /\ \E data \in SeqsUpTo(IloSeries, MaxSeries) :
          /\ response' = data
          /\ fetched' = parse_sdmx_response(data)
    /\ outcomes' = Append(outcomes, "success")
    /\ fetch_pc' = "returned"
    /\ UNCHANGED <<attempt, json_error_is_request_exception, mainVars,
                   dashVars, cvVars>>

FetchNext == RateLimited \/ RequestError \/ ParseError \/ Success

SpecFetch == FetchInit /\ [][FetchNext]_vars

Parsed200 ==
    fetch_pc = "returned" /\ outcomes[Len(outcomes)] = "success"

\* the values the response holds for one country and year under one sex code,
\* among the series in the currency the scraper reads
SexObserved(c, y, x) ==
    MapSeq(SelectSeq(usd_series(response),
                     LAMBDA s : s.country_code = c /\ s.year = y /\ s.sex \in x),
           LAMBDA s : s.value)

\* C22: the wage of a (country, year) after the normalizer is the mean of its
\* total observations whenever the response has a total for that (country,
\* year), and the mean of its male and female observations when it has none
C22_TotalElseMeanOfMaleFemale ==
    Parsed200 =>
        \A c \in {"ARG", "VEN"}, y \in {2016} :
            LET total == SexObserved(c, y, {"SEX_T"})
                mf == SexObserved(c, y, {"SEX_M", "SEX_F"})
                used == SelectSeq(normalize_ilostat(fetched),
                                  LAMBDA r : r.country_code = c /\ r.year = y)
            IN  /\ total # <<>> => Len(used) = 1 /\ used[1].value = Mean(total)
                /\ (total = <<>> /\ mf # <<>>)
                      => Len(used) = 1 /\ used[1].value = Mean(mf)

\* where a total exists for the (country, year), only the total is used
C22_TotalUsedWhenPresent ==
    Parsed200 =>
        \A c \in {"ARG", "VEN"}, y \in {2016} :
            LET total == SexObserved(c, y, {"SEX_T"})
                used == SelectSeq(normalize_ilostat(fetched),
                                  LAMBDA r : r.country_code = c /\ r.year = y)
            IN  total # <<>> => Len(used) = 1 /\ used[1].value = Mean(total)

\* C30: the call makes at most 3 HTTP attempts; every attempt that was
\* followed by another one ended in a 429 or a request error; after a third
\* failed attempt the call has returned the empty list
C30_AtMostThreeRetriesOnlyOnFailure ==
    /\ Len(outcomes) <= max_retries
    /\ \A i \in 1..(Len(outcomes) - 1) :
          outcomes[i] \in {"429", "request_error"}
    /\ (Len(outcomes) = max_retries /\ outcomes[max_retries] # "success")
          => fetch_pc = "returned" /\ fetched = <<>>

\* at most 3 attempts, the empty list after a third failure, and nothing is
\* tried again after a decoded response
C30_BoundedAttempts ==
    /\ Len(outcomes) <= max_retries
    /\ \A i \in 1..(Len(outcomes) - 1) : outcomes[i] # "success"
    /\ (Len(outcomes) = max_retries /\ outcomes[max_retries] # "success")
          => fetch_pc = "returned" /\ fetched = <<>>
    /\ (fetch_pc = "request") <=> (attempt = Len(outcomes)
                                   /\ Len(outcomes) < max_retries
                                   /\ \A i \in 1..Len(outcomes) :
                                         outcomes[i] # "success")

====
